---- MODULE Spec2Model ----
(***************************************************************************)
(* Audio Editor Pro backend (src/backend/main.py): the request handlers    *)
(* that store uploads in uploads/ and drive ffmpeg over HTTP, with their   *)
(* scratch files in temp/ and their results in outputs/.                   *)
(*                                                                         *)
(* A request is followed from the handler's entry (probe, validation,      *)
(* scratch name) through the scratch write, each ffmpeg invocation and the *)
(* response, to the finally block that unlinks the scratch file.  What the *)
(* environment decides (the probe's result, the outcome of a write, of an  *)
(* ffmpeg process, of an unlink) is a nondeterministic choice.             *)
(***************************************************************************)
EXTENDS Integers, Sequences, FiniteSets, TLC

VARIABLES reqs, temp, outputs, uploads

vars == <<reqs, temp, outputs, uploads>>

\* ---------------------------------------------------------------- bounds
\* Requests the server handles, possibly at the same time.
MaxReq == 2
\* Longest track list of an export-mix request.
MaxTracks == 2

Reqs == 1..MaxReq

\* ------------------------------------------------------------ float values
\* A Python float: a number or NaN.  Every ordered comparison with NaN is
\* False, as in the handlers' `>=`, `<` and `<=` tests.
Num(v) == [nan |-> FALSE, v |-> v]
NaN == [nan |-> TRUE, v |-> 0]
Ge(a, b) == ~a.nan /\ ~b.nan /\ a.v >= b.v
Lt(a, b) == ~a.nan /\ ~b.nan /\ a.v < b.v
Le(a, b) == ~a.nan /\ ~b.nan /\ a.v <= b.v

\* ------------------------------------------------------------------ paths
NoPath == [dir |-> "none", kind |-> "none", id |-> <<0, 0>>, ext |-> "none"]

\* uuid.uuid4(): the k-th identifier drawn while handling request r; no two
\* draws give the same value.
uuid4_shared(r, k) == <<0, k>>
uuid4(r, k) == <<r, k>>

\* TEMP_DIR / f"input_{uuid.uuid4()}{suffix}"
TempInput(r) == [dir |-> "temp", kind |-> "input", id |-> uuid4(r, 1), ext |-> "wav"]
\* OUTPUT_DIR / f"{kind}_{uuid.uuid4()}.{ext}"
OutputPath(kind, id, ext) == [dir |-> "outputs", kind |-> kind, id |-> id, ext |-> ext]

\* The bytes request r uploaded, and what a failed write may leave of them.
Upload(r) == <<"upload", r>>
Partial(r) == <<"partial", r>>

\* A file of the uploads directory that exists from the start (an asset of an
\* earlier POST /upload, holding that upload's bytes), as a path string split
\* at the mount prefix.
ExistingUpload == <<"uploads/", "a.wav">>
Durable == {ExistingUpload}

\* -------------------------------------------------------- pure functions
\* check_ffmpeg(): what the `ffmpeg -version` probe did decides the flag.
ProbeOutcomes == {"ok", "nonzero", "not_found", "timeout"}
check_ffmpeg_timeout_ok(probe) == probe \in {"ok", "timeout"}
check_ffmpeg(probe) == probe = "ok"

\* get_quality_settings(format_type, quality)
get_quality_settings_high_default(format_type, quality) ==
    IF format_type = "mp3"
    THEN CASE quality = "high" -> <<"-b:a", "320k">>
           [] quality = "medium" -> <<"-b:a", "192k">>
           [] quality = "low" -> <<"-b:a", "128k">>
           [] OTHER -> <<"-b:a", "320k">>
    ELSE IF format_type = "wav" THEN <<"-acodec", "pcm_s16le">> ELSE <<>>
get_quality_settings(format_type, quality) ==
    IF format_type = "mp3"
    THEN CASE quality = "high" -> <<"-b:a", "320k">>
           [] quality = "medium" -> <<"-b:a", "192k">>
           [] quality = "low" -> <<"-b:a", "128k">>
           [] OTHER -> <<"-b:a", "192k">>
    ELSE IF format_type = "wav" THEN <<"-acodec", "pcm_s16le">> ELSE <<>>

\* What one ffmpeg child process can do: how it ended, and what it left at
\* its output path.  A process that could not be started, was killed at the
\* timeout or exited non-zero is taken to leave no usable output.
ExitKinds == {"zero", "nonzero", "timeout", "oserror"}
Outcomes ==
    {[exit |-> "zero", out |-> o] : o \in {"data", "empty", "missing"}}
    \union {[exit |-> e, out |-> "missing"] : e \in ExitKinds \ {"zero"}}

\* run_ffmpeg_command(command, timeout): True only for exit status 0 in time.
run_ffmpeg_command_timeout_ok(exit) == exit \in {"zero", "timeout"}
run_ffmpeg_command(exit) == exit = "zero"

\* str.replace(old, new) on a path string split into pieces at the mount
\* prefixes: every piece equal to old becomes new.
Replace(s, old, new) == [i \in DOMAIN s |-> IF s[i] = old THEN new ELSE s[i]]

\* track.url.replace("/uploads/", "uploads/").replace("/outputs/", "outputs/")
ResolveTrackPath(url) ==
    Replace(Replace(url, "/uploads/", "uploads/"), "/outputs/", "outputs/")

\* [t for t in request.tracks if t.solo], in input order.
RECURSIVE SoloTracks(_)
SoloTracks(s) ==
    IF s = <<>> THEN <<>>
    ELSE IF Head(s).solo THEN <<Head(s)>> \o SoloTracks(Tail(s))
         ELSE SoloTracks(Tail(s))

\* [t for t in request.tracks if not t.muted], in input order.
RECURSIVE UnmutedTracks(_)
UnmutedTracks(s) ==
    IF s = <<>> THEN <<>>
    ELSE IF ~Head(s).muted THEN <<Head(s)>> \o UnmutedTracks(Tail(s))
         ELSE UnmutedTracks(Tail(s))

\* export_mix's active-track selection.
ActiveTracks_unmuted_solo(tracks) ==
    LET solo_tracks == UnmutedTracks(SoloTracks(tracks))
    IN IF solo_tracks # <<>> THEN solo_tracks ELSE UnmutedTracks(tracks)
ActiveTracks(tracks) ==
    LET solo_tracks == SoloTracks(tracks)
    IN IF solo_tracks # <<>> THEN solo_tracks ELSE UnmutedTracks(tracks)

\* track = active_tracks[0]: the one track export_mix works on.
FirstActive_last(active_tracks) == active_tracks[Len(active_tracks)]
FirstActive(active_tracks) == active_tracks[1]

\* ------------------------------------------------------------ the inputs
\* POST /cut form fields (start_time, end_time): a valid window, an empty
\* one, a reversed one, a negative start, and NaN in either field.
CutInputs ==
    {[start_time |-> Num(0), end_time |-> Num(1)],
     [start_time |-> Num(1), end_time |-> Num(1)],
     [start_time |-> Num(1), end_time |-> Num(0)],
     [start_time |-> Num(-1), end_time |-> Num(1)],
     [start_time |-> NaN, end_time |-> Num(1)],
     [start_time |-> Num(0), end_time |-> NaN]}

\* POST /fade form fields (fade_type, duration).
FadeInputs ==
    {[fade_type |-> t, duration |-> d] :
        t \in {"in", "out", "up"}, d \in {Num(1), Num(0), Num(-1), NaN}}

\* TrackData (id, url, volume, muted, solo): three tracks a client holds, the
\* first an upload that is on disk, the second one that is not, the third
\* with the URL "/uploads/x/outputs/y.wav" (the client chooses the string),
\* each with any setting of its muted and solo flags.
TrackPool ==
    {[id |-> "a", url |-> <<"/uploads/", "a.wav">>, volume |-> 1],
     [id |-> "b", url |-> <<"/uploads/", "b.wav">>, volume |-> 2],
     [id |-> "c", url |-> <<"/uploads/", "x", "/outputs/", "y.wav">>, volume |-> 1]}
Tracks ==
    {[id |-> t.id, url |-> t.url, volume |-> t.volume, muted |-> m, solo |-> s] :
        t \in TrackPool, m \in BOOLEAN, s \in BOOLEAN}
TrackLists == UNION {[1..n -> Tracks] : n \in 0..MaxTracks}

\* The format field of an export request is any string the client sends: a
\* format's name, or a string with path separators and ".." in it.
TraversalFormat == "x/../../uploads/a.wav"
Formats == {"mp3", "wav", "flac", TraversalFormat}
Qualities == {"high", "medium", "low", "ultra"}

\* ExportMixRequest bodies: every track list with every format and tier.
MixInputs ==
    {[tracks |-> ts, format |-> f, quality |-> q] :
        ts \in TrackLists, f \in Formats, q \in Qualities}
\* ExportTrackRequest bodies.
TrackInputs ==
    {[tracks |-> <<t>>, format |-> f, quality |-> q] :
        t \in Tracks, f \in Formats, q \in Qualities}

\* --------------------------------------------------------------- requests
\* An ffmpeg command line: its input file, its filter, its codec arguments
\* and its output path.
Cmd(input, filter, codec, out) ==
    [input |-> input, filter |-> filter, codec |-> codec, out |-> out]
NoCmd == Cmd(NoPath, <<>>, <<>>, NoPath)

ScratchOps == {"cut", "fade", "vocal_music", "instruments"}
ExportOps == {"export_mix", "export_track"}

\* A request the server has not received yet.
IdleReq ==
    [pc |-> "idle", op |-> "none", probe |-> "none",
     start_time |-> Num(0), end_time |-> Num(0),
     fade_type |-> "none", duration |-> Num(0),
     tracks |-> <<>>, format |-> "none", quality |-> "none",
     active_tracks |-> <<>>,
     temp_input |-> NoPath, track_path |-> <<>>, outs |-> <<>>,
     ran |-> 0, lastCmd |-> NoCmd, results |-> <<>>, lastExit |-> "none",
     status |-> 0, detail |-> "none", urls |-> <<>>, cleanup |-> "none"]

\* raise HTTPException(status_code, detail) before the try block: the handler
\* returns at once.
Reject(q, status, detail) ==
    [q EXCEPT !.pc = "done", !.status = status, !.detail = detail]

\* An exception, or a return, inside the try block of a handler with a
\* finally clause: the response is decided, the cleanup is still to run.
Leave(q, status, detail, urls) ==
    [q EXCEPT !.pc = "cleanup", !.status = status, !.detail = detail, !.urls = urls]

\* The same in the export handlers, whose try block has no finally clause.
Return(q, status, detail, urls) ==
    [q EXCEPT !.pc = "done", !.status = status, !.detail = detail, !.urls = urls]

\* ------------------------------------------------- paths and command lines
Sub(a, b) == IF a.nan \/ b.nan THEN NaN ELSE Num(a.v - b.v)

\* The output paths a handler names, in the order it names them.
OutPaths(r, q) ==
    CASE q.op = "cut" -> <<OutputPath("cut", uuid4(r, 2), "wav")>>
      [] q.op = "fade" ->
            <<OutputPath(IF q.fade_type = "in" THEN "fade_in" ELSE "fade_out",
                         uuid4(r, 2), "wav")>>
      [] q.op = "vocal_music" ->
            <<OutputPath("vocal", uuid4(r, 2), "wav"),
              OutputPath("music", uuid4(r, 3), "wav")>>
      [] q.op = "instruments" ->
            <<OutputPath("vocals", uuid4(r, 2), "wav"),
              OutputPath("drums", uuid4(r, 3), "wav"),
              OutputPath("bass", uuid4(r, 4), "wav"),
              OutputPath("other", uuid4(r, 5), "wav")>>
      [] q.op = "export_mix" -> <<OutputPath("mix", uuid4(r, 1), q.format)>>
      [] q.op = "export_track" -> <<OutputPath("track", uuid4(r, 1), q.format)>>

\* ------------------------------------------- where an output path leads
\* The format string split at its path separators.
FormatParts(format) ==
    IF format = TraversalFormat THEN <<"x", "..", "..", "uploads", "a.wav">>
    ELSE <<format>>

\* str(output_path), that is OUTPUT_DIR / f"{kind}_{uuid}.{format}", split at
\* its path separators.
PathParts(p) ==
    <<p.dir, ToString(<<p.kind, p.id, Head(FormatParts(p.ext))>>)>>
        \o Tail(FormatParts(p.ext))

\* The directories there are, relative to the working directory: the three
\* the module creates when it is loaded.
Directories == {<<>>, <<"uploads">>, <<"outputs">>, <<"temp">>}
NoEntry == <<"ENOENT">>
Parent(dir) == IF dir = <<>> THEN <<>> ELSE SubSeq(dir, 1, Len(dir) - 1)

\* The file a path names where the system follows it one component at a
\* time (POSIX): a component can be entered or left only if it is a
\* directory that exists.
RECURSIVE Walk(_, _)
Walk(cur, rest) ==
    IF rest = <<>> THEN cur
    ELSE IF cur \notin Directories THEN NoEntry
    ELSE IF Head(rest) = ".." THEN Walk(Parent(cur), Tail(rest))
    ELSE Walk(Append(cur, Head(rest)), Tail(rest))

\* The file a path names where the system first cancels each ".." against
\* the component before it, whether or not that component exists (Windows).
RECURSIVE Collapse(_, _)
Collapse(cur, rest) ==
    IF rest = <<>> THEN cur
    ELSE IF Head(rest) = ".." THEN Collapse(Parent(cur), Tail(rest))
    ELSE Collapse(Append(cur, Head(rest)), Tail(rest))

\* The server runs on either kind of system (setup.py names Windows, macOS
\* and Ubuntu/Debian).
Platforms == {"posix", "windows"}
OpenTarget(platform, p) ==
    IF platform = "windows" THEN Collapse(<<>>, PathParts(p))
    ELSE Walk(<<>>, PathParts(p))

\* A file of the uploads directory, as the uploads store names it.
UploadKey(target) == <<"uploads/">> \o Tail(target)
InUploads(target) == target # NoEntry /\ Len(target) > 1 /\ target[1] = "uploads"

Pcm == <<"-acodec", "pcm_s16le", "-ar", "44100">>
PcmStereo == <<"-acodec", "pcm_s16le", "-ar", "44100", "-ac", "2">>

\* The ffmpeg command lines a handler builds, in the order it runs them.
Commands(q) ==
    CASE q.op = "cut" ->
            <<Cmd(q.temp_input,
                  <<"-ss", q.start_time, "-t", Sub(q.end_time, q.start_time)>>,
                  PcmStereo, q.outs[1])>>
      [] q.op = "fade" ->
            <<Cmd(q.temp_input,
                  <<"afade", IF q.fade_type = "in" THEN "in" ELSE "out", q.duration>>,
                  PcmStereo, q.outs[1])>>
      [] q.op = "vocal_music" ->
            <<Cmd(q.temp_input, <<"pan=mono|c0=0.5*c0+-0.5*c1">>, Pcm, q.outs[1]),
              Cmd(q.temp_input, <<"pan=stereo|c0=c0|c1=c1">>, PcmStereo, q.outs[2])>>
      [] q.op = "instruments" ->
            <<Cmd(q.temp_input, <<"highpass=f=200,lowpass=f=3000">>, PcmStereo, q.outs[1]),
              Cmd(q.temp_input, <<"highpass=f=1000">>, PcmStereo, q.outs[2]),
              Cmd(q.temp_input, <<"lowpass=f=250">>, PcmStereo, q.outs[3]),
              Cmd(q.temp_input, <<"highpass=f=250,lowpass=f=1000">>, PcmStereo, q.outs[4])>>
      [] q.op = "export_mix" ->
            <<Cmd(q.track_path, <<"volume", FirstActive(q.active_tracks).volume>>,
                  get_quality_settings(q.format, q.quality), q.outs[1])>>
      [] q.op = "export_track" ->
            <<Cmd(q.track_path, <<"volume", q.tracks[1].volume>>,
                  get_quality_settings(q.format, q.quality), q.outs[1])>>

\* Path.exists() and a non-zero st_size, on the outputs directory.
Exists(fs, p) == p \in DOMAIN fs
NonEmpty(fs, p) == p \in DOMAIN fs /\ fs[p] # "empty"

\* Whether the input file of a command is on disk when ffmpeg opens it.
InputExists(q) ==
    IF q.op \in ScratchOps THEN q.temp_input \in DOMAIN temp
    ELSE q.track_path \in DOMAIN uploads

\* ------------------------------------------------------------------- Init
Init ==
    /\ reqs = [r \in Reqs |-> IdleReq]
    /\ temp = <<>>
    /\ outputs = <<>>
    /\ uploads = [p \in Durable |-> Upload(0)]

\* ------------------------------------------------------ handlers: entry
\* Each handler up to its first suspension: the probe, the validation and,
\* in the handlers that read an upload, the scratch name.

\* POST /upload: the content-type test, then the file named by a fresh
\* identifier is opened for writing, the body read and written.  A failed
\* open leaves no file, a failed read or write leaves the file with part of
\* the bytes; both are answered 500.
ContentTypes == {"audio/wav", "text/plain", "none"}
IsAudio(content_type) == content_type = "audio/wav"
UploadPath(r) == <<"uploads/", ToString(uuid4(r, 1)), ".wav">>

upload_file(r, env) ==
    /\ reqs[r].pc = "idle"
    /\ \E content_type \in env.content_types, w \in env.writes :
         LET q == [reqs[r] EXCEPT !.op = "upload"]
             file_path == UploadPath(r)
         IN IF ~IsAudio(content_type)
            THEN /\ reqs' = [reqs EXCEPT ![r] = Reject(q, 400, "not_audio")]
                 /\ uploads' = uploads
            ELSE /\ uploads' = CASE w = "ok" -> (file_path :> Upload(r)) @@ uploads
                                 [] w = "write_fails" -> (file_path :> Partial(r)) @@ uploads
                                 [] OTHER -> uploads
                 /\ reqs' = [reqs EXCEPT ![r] =
                      IF w = "ok" THEN Return(q, 200, "none", <<file_path>>)
                      ELSE Return(q, 500, "exception", <<>>)]
    /\ UNCHANGED <<temp, outputs>>

\* POST /cut
cut_audio(r, env) ==
    /\ reqs[r].pc = "idle"
    /\ \E probe \in env.probes, in \in env.cuts :
         LET q == [reqs[r] EXCEPT !.op = "cut", !.probe = probe,
                                  !.start_time = in.start_time,
                                  !.end_time = in.end_time]
         IN reqs' = [reqs EXCEPT ![r] =
              IF ~check_ffmpeg(probe) THEN Reject(q, 500, "ffmpeg_unavailable")
              ELSE IF Ge(q.start_time, q.end_time) THEN Reject(q, 400, "start_not_before_end")
              ELSE IF Lt(q.start_time, Num(0)) THEN Reject(q, 400, "negative_start")
              ELSE [q EXCEPT !.pc = "read", !.temp_input = TempInput(r)]]
    /\ UNCHANGED <<temp, outputs, uploads>>

\* POST /fade
apply_fade(r, env) ==
    /\ reqs[r].pc = "idle"
    /\ \E probe \in env.probes, in \in env.fades :
         LET q == [reqs[r] EXCEPT !.op = "fade", !.probe = probe,
                                  !.fade_type = in.fade_type,
                                  !.duration = in.duration]
         IN reqs' = [reqs EXCEPT ![r] =
              IF ~check_ffmpeg(probe) THEN Reject(q, 500, "ffmpeg_unavailable")
              ELSE IF q.fade_type \notin {"in", "out"} THEN Reject(q, 400, "bad_fade_type")
              ELSE IF Le(q.duration, Num(0)) THEN Reject(q, 400, "bad_duration")
              ELSE [q EXCEPT !.pc = "read", !.temp_input = TempInput(r)]]
    /\ UNCHANGED <<temp, outputs, uploads>>

\* POST /separate/vocal-music
separate_vocal_music(r, env) ==
    /\ reqs[r].pc = "idle"
    /\ \E probe \in env.probes :
         LET q == [reqs[r] EXCEPT !.op = "vocal_music", !.probe = probe]
         IN reqs' = [reqs EXCEPT ![r] =
              IF ~check_ffmpeg(probe) THEN Reject(q, 500, "ffmpeg_unavailable")
              ELSE [q EXCEPT !.pc = "read", !.temp_input = TempInput(r)]]
    /\ UNCHANGED <<temp, outputs, uploads>>

\* POST /separate/instruments
separate_instruments(r, env) ==
    /\ reqs[r].pc = "idle"
    /\ \E probe \in env.probes :
         LET q == [reqs[r] EXCEPT !.op = "instruments", !.probe = probe]
         IN reqs' = [reqs EXCEPT ![r] =
              IF ~check_ffmpeg(probe) THEN Reject(q, 500, "ffmpeg_unavailable")
              ELSE [q EXCEPT !.pc = "read", !.temp_input = TempInput(r)]]
    /\ UNCHANGED <<temp, outputs, uploads>>

\* POST /export/mix
export_mix(r, env) ==
    /\ reqs[r].pc = "idle"
    /\ \E probe \in env.probes, in \in env.mixes :
         LET q0 == [reqs[r] EXCEPT !.op = "export_mix", !.probe = probe,
                                   !.tracks = in.tracks, !.format = in.format,
                                   !.quality = in.quality]
             active_tracks == ActiveTracks(q0.tracks)
             q == [q0 EXCEPT !.active_tracks = active_tracks]
             track_path == ResolveTrackPath(FirstActive(active_tracks).url)
         IN reqs' = [reqs EXCEPT ![r] =
              IF ~check_ffmpeg(probe) THEN Reject(q0, 500, "ffmpeg_unavailable")
              ELSE IF active_tracks = <<>> THEN Return(q, 400, "no_active_tracks", <<>>)
              ELSE IF track_path \notin DOMAIN uploads
                   THEN Return([q EXCEPT !.track_path = track_path],
                               404, "source_not_found", <<>>)
              ELSE LET q1 == [q EXCEPT !.track_path = track_path]
                   IN [q1 EXCEPT !.pc = "run", !.outs = OutPaths(r, q1)]]
    /\ UNCHANGED <<temp, outputs, uploads>>

\* POST /export/track
export_track(r, env) ==
    /\ reqs[r].pc = "idle"
    /\ \E probe \in env.probes, in \in env.tracks :
         LET q == [reqs[r] EXCEPT !.op = "export_track", !.probe = probe,
                                  !.tracks = in.tracks, !.format = in.format,
                                  !.quality = in.quality]
             track_path == ResolveTrackPath(q.tracks[1].url)
         IN reqs' = [reqs EXCEPT ![r] =
              IF ~check_ffmpeg(probe) THEN Reject(q, 500, "ffmpeg_unavailable")
              ELSE IF track_path \notin DOMAIN uploads
                   THEN Return([q EXCEPT !.track_path = track_path],
                               404, "source_not_found", <<>>)
              ELSE LET q1 == [q EXCEPT !.track_path = track_path]
                   IN [q1 EXCEPT !.pc = "run", !.outs = OutPaths(r, q1)]]
    /\ UNCHANGED <<temp, outputs, uploads>>

\* ------------------------------------------------ handlers: the try block
\* content = await file.read(); open(temp_input, "wb"); buffer.write(content)
\* The read or the open may fail (no file), the write may fail (a file that
\* holds part of the bytes); any of these is the handler's `except Exception`.
WriteOutcomes == {"ok", "open_fails", "write_fails"}

SaveScratch(r, env) ==
    LET q == reqs[r] IN
    /\ q.pc = "read"
    /\ \E w \in env.writes :
         /\ temp' = CASE w = "ok" -> (q.temp_input :> Upload(r)) @@ temp
                      [] w = "write_fails" -> (q.temp_input :> Partial(r)) @@ temp
                      [] OTHER -> temp
         /\ reqs' = [reqs EXCEPT ![r] =
              IF w = "ok" THEN [q EXCEPT !.pc = "run", !.outs = OutPaths(r, q)]
              ELSE Leave(q, 500, "exception", <<>>)]
    /\ UNCHANGED <<outputs, uploads>>

\* Whether the handler has run the last of its n commands: every handler
\* runs all of them, whatever the earlier ones returned.
AllRun_stop_at_failure(n, results) == Len(results) = n \/ ~results[Len(results)]
AllRun(n, results) == Len(results) = n

\* The number of True among the invoker's results (success_count).
RECURSIVE SuccessCount(_)
SuccessCount(results) ==
    IF results = <<>> THEN 0
    ELSE (IF Head(results) THEN 1 ELSE 0) + SuccessCount(Tail(results))

\* What the handler answers once its commands have run, given the invoker's
\* results and the outputs directory: <<status, detail, urls>>.
Respond(q, results, fs) ==
    CASE q.op \in {"cut", "fade", "export_mix", "export_track"} ->
            IF ~results[1] THEN <<500, "tool_failed", <<>>>>
            ELSE IF ~Exists(fs, q.outs[1]) \/ ~NonEmpty(fs, q.outs[1])
                 THEN <<500, "empty_output", <<>>>>
            ELSE <<200, "none", q.outs>>
      [] q.op = "vocal_music" ->
            IF ~(results[1] /\ results[2]) THEN <<500, "tool_failed", <<>>>>
            ELSE IF ~Exists(fs, q.outs[1]) \/ ~Exists(fs, q.outs[2])
                 THEN <<500, "empty_output", <<>>>>
            ELSE <<200, "none", q.outs>>
      [] q.op = "instruments" ->
            IF SuccessCount(results) < 4 THEN <<500, "tool_failed", <<>>>>
            ELSE <<200, "none", q.outs>>

\* One run_ffmpeg_command call of the handler (its next command), and, after
\* the last one, the checks that decide the response.  ffmpeg -y writes the
\* file its output path names on the system it runs on, replacing a file that
\* is there; the handler's exists() and stat() follow the path the same way.
RunCommand(r, env) ==
    LET q == reqs[r]
        commands == Commands(q)
        cmd == commands[Len(q.results) + 1]
    IN
    /\ q.pc = "run"
    /\ \E o \in env.outcomes, platform \in env.platforms :
         LET target == OpenTarget(platform, cmd.out)
             here == target = PathParts(cmd.out)
             written == o.out # "missing"
         IN
         /\ o.exit = "zero" => InputExists(q)
         /\ target = NoEntry => o.exit # "zero"
         /\ outputs' = IF written /\ here THEN (cmd.out :> o.out) @@ outputs
                       ELSE outputs
         /\ uploads' = IF written /\ InUploads(target)
                       THEN (UploadKey(target) :> <<o.out, r>>) @@ uploads
                       ELSE uploads
         /\ LET results == Append(q.results, run_ffmpeg_command(o.exit))
                q1 == [q EXCEPT !.results = results, !.lastExit = o.exit,
                                !.ran = q.ran + 1, !.lastCmd = cmd]
                seen == IF InUploads(target) /\ UploadKey(target) \in DOMAIN uploads'
                        THEN (cmd.out :> uploads'[UploadKey(target)][1]) @@ outputs'
                        ELSE outputs'
                a == Respond(q1, results, seen)
            IN reqs' = [reqs EXCEPT ![r] =
                 IF ~AllRun(Len(commands), results) THEN q1
                 ELSE IF q.op \in ScratchOps THEN Leave(q1, a[1], a[2], a[3])
                 ELSE Return(q1, a[1], a[2], a[3])]
    /\ UNCHANGED temp

\* finally: if temp_input.exists(): try: temp_input.unlink() except: log.
\* The unlink may fail; the failure is logged and the handler returns.
Remove(fs, p) == [x \in DOMAIN fs \ {p} |-> fs[x]]

Cleanup_on_success_only(q) == q.status = 200
Cleanup_always(q) == TRUE

\* try: temp_input.unlink() except Exception as e: logger.warning(...)
\* The request after the unlink: the exception of a failed unlink is caught
\* where it is raised, so the response decided in the try block stands.
AfterUnlink_raises(q, unlinked) ==
    IF unlinked THEN [q EXCEPT !.pc = "done", !.cleanup = "unlinked"]
    ELSE [q EXCEPT !.pc = "done", !.cleanup = "unlink_failed",
                   !.status = 500, !.detail = "exception", !.urls = <<>>]
AfterUnlink(q, unlinked) ==
    [q EXCEPT !.pc = "done",
              !.cleanup = IF unlinked THEN "unlinked" ELSE "unlink_failed"]

Cleanup(r) ==
    LET q == reqs[r] IN
    /\ q.pc = "cleanup"
    /\ IF Cleanup_always(q) /\ q.temp_input \in DOMAIN temp
       THEN \E unlinked \in BOOLEAN :
              /\ temp' = IF unlinked THEN Remove(temp, q.temp_input) ELSE temp
              /\ reqs' = [reqs EXCEPT ![r] = AfterUnlink(q, unlinked)]
       ELSE /\ temp' = temp
            /\ reqs' = [reqs EXCEPT ![r] = [q EXCEPT !.pc = "done", !.cleanup = "absent"]]
    /\ UNCHANGED <<outputs, uploads>>

\* ------------------------------------------------------------------- Next
\* What the clients and the machine may do to one request: the probe's
\* result, the request's fields, how the scratch write and each ffmpeg
\* process end.
Anything ==
    [probes |-> ProbeOutcomes, cuts |-> CutInputs, fades |-> FadeInputs,
     mixes |-> MixInputs, tracks |-> TrackInputs,
     content_types |-> ContentTypes, platforms |-> Platforms,
     writes |-> WriteOutcomes, outcomes |-> Outcomes]

\* One request, to any of the seven handlers, from its arrival to its return.
Next ==
    \E r \in {1} :
        \/ upload_file(r, Anything)
        \/ cut_audio(r, Anything)
        \/ apply_fade(r, Anything)
        \/ separate_vocal_music(r, Anything)
        \/ separate_instruments(r, Anything)
        \/ export_mix(r, Anything)
        \/ export_track(r, Anything)
        \/ SaveScratch(r, Anything)
        \/ RunCommand(r, Anything)
        \/ Cleanup(r)

Spec == Init /\ [][Next]_vars

\* Requests to the handlers that keep a scratch file, overlapping in any
\* way: the steps of one request interleave with the steps of the others.
\* Each request is accepted or rejected at the probe, each of its ffmpeg
\* processes succeeds or fails, and its unlink succeeds or fails.  Requests
\* are numbered in the order they arrive.
Overlapping ==
    [probes |-> {"ok", "not_found"},
     cuts |-> {[start_time |-> Num(0), end_time |-> Num(1)]},
     fades |-> {[fade_type |-> "in", duration |-> Num(1)]},
     mixes |-> {}, tracks |-> {},
     content_types |-> {}, platforms |-> {"posix"},
     writes |-> {"ok"},
     outcomes |-> {[exit |-> "zero", out |-> "data"],
                   [exit |-> "nonzero", out |-> "missing"]}]

Arrived(r) == IF r = 1 THEN TRUE ELSE reqs[r - 1].pc # "idle"

NextConc ==
    \E r \in Reqs :
        \/ Arrived(r) /\ cut_audio(r, Overlapping)
        \/ Arrived(r) /\ apply_fade(r, Overlapping)
        \/ Arrived(r) /\ separate_vocal_music(r, Overlapping)
        \/ Arrived(r) /\ separate_instruments(r, Overlapping)
        \/ SaveScratch(r, Overlapping)
        \/ RunCommand(r, Overlapping)
        \/ Cleanup(r)

SpecConc == Init /\ [][NextConc]_vars

\* ================================================================ claims
Returned(r) == reqs[r].pc = "done"
\* The handler's response is decided (only the cleanup may still be to run).
Answered(r) == reqs[r].pc \in {"cleanup", "done"}
\* Some file in temp/ or outputs/ carries an identifier drawn for request r.
Wrote(r) == \E p \in (DOMAIN temp) \union (DOMAIN outputs) : p.id[1] = r
Gt(a, b) == Lt(b, a)

\* C1 (as stated): after any request to a handler that creates a scratch
\* input, whatever its outcome, the scratch input file no longer exists once
\* the handler has returned.
C1_ScratchGoneAfterReturn ==
    \A r \in Reqs :
        (reqs[r].op \in ScratchOps /\ Returned(r)) => TempInput(r) \notin DOMAIN temp

\* C1 (amended): once such a handler has returned, the scratch input file
\* exists only if the cleanup's unlink itself failed (which the handler logs
\* and swallows); on every other path (rejection, success, invoker failure,
\* empty output, exception) it is gone.
C1_ScratchGoneUnlessUnlinkFailed ==
    \A r \in Reqs :
        (reqs[r].op \in ScratchOps /\ Returned(r)) =>
            (TempInput(r) \in DOMAIN temp <=> reqs[r].cleanup = "unlink_failed")

\* A request whose ffmpeg run failed has returned, its scratch file unlinked.
C1_Witness ==
    \E r \in Reqs :
        /\ reqs[r].op \in ScratchOps /\ Returned(r)
        /\ reqs[r].status = 500 /\ reqs[r].detail = "tool_failed"
        /\ reqs[r].cleanup = "unlinked" /\ TempInput(r) \notin DOMAIN temp

\* The path names a file that exists with size > 0: a file of outputs/, or
\* the file the path leads to where ".." components are cancelled.
NamesNonEmptyFile(p) ==
    \/ NonEmpty(outputs, p)
    \/ LET target == OpenTarget("windows", p)
       IN /\ InUploads(target) /\ UploadKey(target) \in DOMAIN uploads
          /\ uploads[UploadKey(target)][1] # "empty"

\* C2: whenever a transformation handler returns a success response, every
\* output path in the response is a file that exists with size > 0.
C2_ReportedOutputsExistNonEmpty ==
    \A r \in Reqs :
        (reqs[r].op \in ScratchOps \union ExportOps
            /\ Answered(r) /\ reqs[r].status = 200) =>
            /\ reqs[r].urls # <<>>
            /\ \A i \in DOMAIN reqs[r].urls : NamesNonEmptyFile(reqs[r].urls[i])

\* C3: if the probe reports ffmpeg unavailable, the endpoint, whatever the
\* request's fields, returns the engine-unavailable error, having written no
\* scratch or output file and run no transformation command.
C3_UnavailableFailsFast ==
    \A r \in Reqs :
        reqs[r].probe \in ProbeOutcomes \ {"ok"} =>
            /\ Returned(r)
            /\ reqs[r].status = 500 /\ reqs[r].detail = "ffmpeg_unavailable"
            /\ reqs[r].ran = 0 /\ reqs[r].results = <<>>
            /\ reqs[r].temp_input = NoPath /\ reqs[r].outs = <<>>
            /\ ~Wrote(r)

\* An export-mix request with a non-empty track list, rejected because the
\* probe timed out.
C3_Witness ==
    \E r \in Reqs :
        /\ reqs[r].op = "export_mix" /\ reqs[r].probe = "timeout"
        /\ reqs[r].tracks # <<>> /\ Returned(r) /\ reqs[r].status = 500

\* C4: a cut request for which start_time < end_time and start_time >= 0 do
\* not both hold is rejected with a client error, no process spawned and no
\* scratch or output file written.  (Stated for requests whose probe found
\* ffmpeg: with ffmpeg missing the handler answers 500 before it validates.)
C4_BadCutWindowRejected ==
    \A r \in Reqs :
        LET q == reqs[r] IN
        (q.op = "cut" /\ q.probe = "ok"
            /\ ~(Lt(q.start_time, q.end_time) /\ Ge(q.start_time, Num(0)))) =>
            /\ Returned(r) /\ q.status = 400
            /\ q.ran = 0 /\ q.temp_input = NoPath /\ ~Wrote(r)

\* C5: a fade request with fade_type outside {in, out} or duration <= 0 (not
\* > 0) is rejected with a client error before any scratch file or process;
\* a request that reaches ffmpeg has fade_type in {in, out} and duration > 0.
\* (Stated for requests whose probe found ffmpeg.)
C5_BadFadeRejected ==
    \A r \in Reqs :
        LET q == reqs[r]
            valid == q.fade_type \in {"in", "out"} /\ Gt(q.duration, Num(0))
        IN (q.op = "fade" /\ q.probe = "ok") =>
            /\ ~valid => (Returned(r) /\ q.status = 400 /\ q.ran = 0
                          /\ q.temp_input = NoPath /\ ~Wrote(r))
            /\ q.ran > 0 => valid

\* The active set as the handler is described: the solo tracks if there is
\* one, else the tracks that are not muted, in input order.
ExpectedActive(tracks) ==
    IF \E i \in DOMAIN tracks : tracks[i].solo
    THEN SelectSeq(tracks, LAMBDA t : t.solo)
    ELSE SelectSeq(tracks, LAMBDA t : ~t.muted)

\* C6 (as stated): the active set is the solo tracks if any track is solo
\* (muted or not), else the non-muted tracks, in input order; and the request
\* is rejected with a client error exactly when the active set is empty.
\* (Stated for requests whose probe found ffmpeg.)
C6_ClientErrorIffNoActiveTrack ==
    \A r \in Reqs :
        LET q == reqs[r] IN
        (q.op = "export_mix" /\ q.probe = "ok") =>
            /\ q.active_tracks = ExpectedActive(q.tracks)
            /\ (Returned(r) /\ q.status \in 400..499) <=> ExpectedActive(q.tracks) = <<>>

\* C6 (amended): the active set is selected as stated; and, when the probe
\* finds ffmpeg, the request is rejected with the 400 "no active tracks"
\* error exactly when the active set is empty (a non-empty active set whose
\* first track has no source file is rejected as well, with 404).
C6_NoActiveTracksIffEmpty ==
    \A r \in Reqs :
        LET q == reqs[r] IN
        (q.op = "export_mix" /\ q.probe = "ok") =>
            /\ q.active_tracks = ExpectedActive(q.tracks)
            /\ (Returned(r) /\ q.status = 400 /\ q.detail = "no_active_tracks")
                   <=> ExpectedActive(q.tracks) = <<>>

\* A plain track followed by a track that is solo and muted: the active set
\* is the second track alone.
C6_Witness ==
    \E r \in Reqs :
        LET q == reqs[r] IN
        /\ q.op = "export_mix" /\ q.probe = "ok" /\ Len(q.tracks) = 2
        /\ ~q.tracks[1].solo /\ ~q.tracks[1].muted
        /\ q.tracks[2].solo /\ q.tracks[2].muted
        /\ q.active_tracks = <<q.tracks[2]>>

\* C7: the codec arguments of an export command are 320k for mp3/high, 192k
\* for mp3/medium, 128k for mp3/low, 192k for mp3 with any other tier, and
\* 16-bit signed PCM for wav with any tier.
C7_QualityMapping ==
    \A r \in Reqs :
        LET q == reqs[r] IN
        (q.op \in ExportOps /\ q.ran > 0) =>
            LET codec == q.lastCmd.codec IN
            /\ (q.format = "mp3" /\ q.quality = "high") => codec = <<"-b:a", "320k">>
            /\ (q.format = "mp3" /\ q.quality = "medium") => codec = <<"-b:a", "192k">>
            /\ (q.format = "mp3" /\ q.quality = "low") => codec = <<"-b:a", "128k">>
            /\ (q.format = "mp3" /\ q.quality \notin {"high", "medium", "low"})
                   => codec = <<"-b:a", "192k">>
            /\ q.format = "wav" => codec = <<"-acodec", "pcm_s16le">>

\* An mp3 export with the unrecognized tier "ultra" has run at 192k.
C7_Witness ==
    \E r \in Reqs :
        /\ reqs[r].op \in ExportOps /\ reqs[r].ran > 0
        /\ reqs[r].format = "mp3" /\ reqs[r].quality = "ultra"
        /\ reqs[r].lastCmd.codec = <<"-b:a", "192k">>

\* The request's scratch write has succeeded and its cleanup has not run.
HoldsScratch(r) ==
    reqs[r].outs # <<>> /\ reqs[r].op \in ScratchOps /\ reqs[r].pc \in {"run", "cleanup"}

\* C8: under any interleaving of requests, no two requests use the same
\* scratch path, and from its write until its own cleanup (in particular
\* during its ffmpeg invocations) a request's scratch file exists and holds
\* exactly the bytes that request uploaded.
C8_ScratchIsolation ==
    /\ \A r1, r2 \in Reqs :
          (r1 # r2 /\ reqs[r1].temp_input # NoPath /\ reqs[r2].temp_input # NoPath)
              => reqs[r1].temp_input # reqs[r2].temp_input
    /\ \A r \in Reqs :
          HoldsScratch(r) =>
              /\ reqs[r].temp_input \in DOMAIN temp
              /\ temp[reqs[r].temp_input] = Upload(r)

\* Two requests are both between two of their ffmpeg invocations, each with
\* its scratch file on disk.
C8_Witness ==
    \E r1, r2 \in Reqs :
        /\ r1 # r2
        /\ reqs[r1].pc = "run" /\ reqs[r1].results # <<>>
        /\ reqs[r2].pc = "run" /\ reqs[r2].results # <<>>
        /\ reqs[r1].temp_input \in DOMAIN temp /\ reqs[r2].temp_input \in DOMAIN temp

\* C9: a 4-band split that runs a command runs all 4, whatever the earlier
\* ones returned, and succeeds only if all 4 returned true; a vocal/music
\* split runs both commands and fails if either returned false.
C9_AllLegsAttempted ==
    \A r \in Reqs :
        LET q == reqs[r]
            n == IF q.op = "instruments" THEN 4 ELSE 2
        IN (q.op \in {"instruments", "vocal_music"} /\ Answered(r) /\ q.results # <<>>) =>
            /\ Len(q.results) = n /\ q.ran = n
            /\ q.lastCmd = Commands(q)[n]
            /\ q.status = 200 => \A i \in 1..n : q.results[i]
            /\ (\E i \in 1..n : ~q.results[i]) => q.status = 500

\* A 4-band split whose first command failed ran the other three, the last
\* of them with success, and was answered 500.
C9_Witness ==
    \E r \in Reqs :
        /\ reqs[r].op = "instruments" /\ Returned(r)
        /\ Len(reqs[r].results) = 4
        /\ ~reqs[r].results[1] /\ reqs[r].results[4]
        /\ reqs[r].status = 500

\* C10: the invoker returns true only for exit status 0 within the timeout;
\* a handler runs each of its commands at most once; and a request in which
\* an invoker call returned false is never answered with success.
C10_InvokerNoRetry ==
    \A r \in Reqs :
        LET q == reqs[r] IN
        /\ q.results # <<>> => (q.results[Len(q.results)] <=> q.lastExit = "zero")
        /\ q.ran = Len(q.results) /\ q.ran <= Len(q.outs)
        /\ q.ran > 0 => q.lastCmd.out = q.outs[q.ran]
        /\ (\E i \in DOMAIN q.results : ~q.results[i]) => q.status # 200

\* A request whose ffmpeg process was killed at the timeout was answered 500
\* after that single run.
C10_Witness ==
    \E r \in Reqs :
        /\ Returned(r) /\ reqs[r].lastExit = "timeout"
        /\ reqs[r].ran = 1 /\ reqs[r].status = 500

\* C11: a failure to delete the scratch file during cleanup never changes the
\* response: from the moment the handler's outcome is decided, the status,
\* the error and the returned paths stay what they are through the cleanup,
\* whether the unlink succeeds or fails.
C11_UnlinkFailureKeepsResponse ==
    [][\A r \in Reqs :
          Answered(r) =>
              /\ reqs'[r].status = reqs[r].status
              /\ reqs'[r].detail = reqs[r].detail
              /\ reqs'[r].urls = reqs[r].urls]_vars

\* A request answered with success has returned although the unlink of its
\* scratch file failed.
C11_Witness ==
    \E r \in Reqs :
        /\ reqs[r].op \in ScratchOps /\ Returned(r)
        /\ reqs[r].cleanup = "unlink_failed" /\ TempInput(r) \in DOMAIN temp
        /\ reqs[r].status = 200 /\ reqs[r].urls # <<>>

PrefixResolve(url) ==
    IF url # <<>> /\ url[1] = "/uploads/" THEN <<"uploads/">> \o Tail(url)
    ELSE IF url # <<>> /\ url[1] = "/outputs/" THEN <<"outputs/">> \o Tail(url)
    ELSE url

\* The track whose URL an export request resolves, once it has resolved it.
ResolvedTrack(q) ==
    IF q.op = "export_mix" THEN FirstActive(q.active_tracks) ELSE q.tracks[1]

\* C13: the local path export mix and export track resolve a track URL to is
\* the URL with the mount prefix it starts with (/uploads/ or /outputs/)
\* replaced by the local directory, and the rest of the URL unchanged.
C13_ResolutionIsPrefixSubstitution ==
    \A r \in Reqs :
        LET q == reqs[r] IN
        (q.op \in ExportOps /\ q.track_path # <<>>) =>
            q.track_path = PrefixResolve(ResolvedTrack(q).url)

\* C14: the upload and output stores are append-only: no step of any handler
\* removes a file that is in uploads or in outputs or changes what it holds,
\* the outputs of a split that is then answered with failure included.
C14_StoresAppendOnly ==
    [][/\ \A p \in DOMAIN uploads : p \in DOMAIN uploads' /\ uploads'[p] = uploads[p]
       /\ \A p \in DOMAIN outputs : p \in DOMAIN outputs' /\ outputs'[p] = outputs[p]]_vars

====
